---- MODULE Spec2Model ----
(***************************************************************************)
(* Model of pkg/tiller/client_config.go: DeferredLoadingClientConfig, a    *)
(* lazily resolved client configuration with in-cluster fallback.          *)
(*                                                                         *)
(* One DeferredLoadingClientConfig is shared by NumCallers goroutines.     *)
(* createClientConfig is modelled statement by statement, because its      *)
(* statements interleave on the shared fields clientConfig and loadingLock.*)
(* The field clientConfig is an interface value, two machine words (type   *)
(* word and data word).  Lines 67 and 88 read it without holding           *)
(* loadingLock while line 84 writes it, so the write is modelled as two    *)
(* word stores in either order and an unguarded read sees whatever words   *)
(* are in memory at that moment.                                           *)
(*                                                                         *)
(* The collaborators (loader, the merged clientcmd.ClientConfig and icc)   *)
(* are outside this file: every answer they give is drawn from a small     *)
(* set at the moment the code asks for it.                                 *)
(***************************************************************************)
EXTENDS Integers, Sequences, FiniteSets, TLC

\* Number of goroutines that share the DeferredLoadingClientConfig.
NumCallers == 2
\* Total number of calls of the public methods made in one run.
MaxCalls == 2

Callers == 1..NumCallers

\* A nil pointer / nil interface word, and the nil error.
NilPtr == [nil |-> TRUE]
NoError == "nil"

\* v1.NamespaceDefault
NamespaceDefault == "default"

\* The interface value held in the field clientConfig: type word and data word.
NilHandle == [tab |-> NilPtr, data |-> NilPtr]
DirectClientConfigTab == [type |-> "*clientcmd.DirectClientConfig"]

\* Errors loader.Load() may return.
LoadErrors == {"ErrLoadA", "ErrLoadB"}
\* Errors of the merged clientcmd.ClientConfig.
ErrEmptyConfig == "ErrEmptyConfig"
ErrInvalidConfig == "ErrInvalidConfig"
MergedErrors == {NoError, ErrEmptyConfig, ErrInvalidConfig}
\* Error of the in-cluster configuration.
ErrNotInCluster == "ErrNotInCluster"

\* clientcmd.IsEmptyConfig (called at lines 112 and 146).
IsEmptyConfig(e) == e = ErrEmptyConfig

\* *restclient.Config values the collaborators hand out.  The merged
\* configuration carries the impersonation of the overrides.
MergedRestConfig ==
    [Host |-> "kubeconfig", Impersonate |-> [UserName |-> "bob", Groups |-> <<"devs">>]]
InClusterRestConfig ==
    [Host |-> "in-cluster", Impersonate |-> [UserName |-> "", Groups |-> <<>>]]

VARIABLES
    user,               \* config.user
    groups,             \* config.groups
    fallbackReader,     \* config.fallbackReader
    icc,                \* config.icc
    clientConfig,       \* config.clientConfig (type word, data word)
    loadingLock,        \* config.loadingLock: the set of callers that hold it
    pc,                 \* per caller: the statement it is at
    op,                 \* per caller: the public method it is executing
    mergedClientConfig, \* per caller: value returned by createClientConfig
    err,                \* per caller: error returned by createClientConfig
    env,                \* per caller: the collaborator calls its call made, with their answers
    out,                \* per caller: what its call returned
    loads,              \* per caller: Load invocations made by its current call
    resolvedAtCall,     \* per caller: clientConfig was completely stored when its call began
    calls,              \* calls started so far
    loadCount,          \* loader.Load() invocations so far
    loadOK,             \* loader.Load() invocations that returned a configuration
    loadFailed          \* loader.Load() invocations that returned an error

vars == <<user, groups, fallbackReader, icc, clientConfig, loadingLock, pc, op,
          mergedClientConfig, err, env, out, loads, resolvedAtCall,
          calls, loadCount, loadOK, loadFailed>>

fields == <<user, groups, fallbackReader, icc>>

NoOut == [kind |-> "none"]
NoEnv == [n \in {} |-> TRUE]

Resolved == clientConfig.tab # NilPtr /\ clientConfig.data # NilPtr
Unresolved == clientConfig = NilHandle

\* NewImpersonationClientConfig (lines 57-59) sets loader, overrides, user and
\* groups and leaves fallbackReader and icc nil.  The constructor that took a
\* fallbackReader is commented out (lines 61-64), so fallbackReader stays nil;
\* icc is "provided for testing" (line 46): code of the package sets it.
Init ==
    /\ user = "alice"
    /\ groups = <<"admins">>
    /\ fallbackReader = NilPtr
    /\ icc \in {NilPtr, [detector |-> "icc"]}
    /\ clientConfig = NilHandle
    /\ loadingLock = {}
    /\ pc = [t \in Callers |-> "idle"]
    /\ op = [t \in Callers |-> "none"]
    /\ mergedClientConfig = [t \in Callers |-> NilHandle]
    /\ err = [t \in Callers |-> NoError]
    /\ env = [t \in Callers |-> NoEnv]
    /\ out = [t \in Callers |-> NoOut]
    /\ loads = [t \in Callers |-> 0]
    /\ resolvedAtCall = [t \in Callers |-> FALSE]
    /\ calls = 0
    /\ loadCount = 0
    /\ loadOK = 0
    /\ loadFailed = 0

\* out and env hold the values of one return until the caller has taken them
\* (Retire).  Taking them changes nothing the program reads and commutes with
\* every statement, so it is modelled as happening before the next statement
\* of any caller.
Taken == \A t \in Callers : pc[t] # "returned"

----------------------------------------------------------------------------
\* A caller invokes one of the public methods.

Begin(t, o) ==
    /\ pc[t] \in {"idle", "done"}
    /\ Taken
    /\ calls < MaxCalls
    /\ calls' = calls + 1
    /\ op' = [op EXCEPT ![t] = o]
    /\ resolvedAtCall' = [resolvedAtCall EXCEPT ![t] = Resolved]
    /\ UNCHANGED <<fields, clientConfig, loadingLock, mergedClientConfig, err, loads,
                   loadCount, loadOK, loadFailed>>

\* RawConfig, ClientConfig and Namespace start with createClientConfig().
Enter(t, o) ==
    /\ Begin(t, o)
    /\ pc' = [pc EXCEPT ![t] = "L67"]
    /\ UNCHANGED <<env, out>>

\* line 92, line 102, line 138
CallRawConfig(t) == Enter(t, "RawConfig")
CallClientConfig(t) == Enter(t, "ClientConfig")
CallNamespace(t) == Enter(t, "Namespace")

\* ConfigAccess that resolves the configuration first, as the other methods do.
ConfigAccessResolving(t) == Enter(t, "ConfigAccess")

\* ConfigAccess returns config.loader.
ConfigAccess(t) ==
    /\ Begin(t, "ConfigAccess")
    /\ pc' = [pc EXCEPT ![t] = "returned"]
    /\ out' = [out EXCEPT ![t] = [kind |-> "return", val |-> "loader", err |-> NoError]]
    /\ env' = env

----------------------------------------------------------------------------
\* createClientConfig, lines 66-89.

local == <<op, env, out, resolvedAtCall, calls>>

\* line 67: if config.clientConfig == nil   (unguarded; compares the type word)
CheckCache(t) ==
    /\ pc[t] = "L67"
    /\ Taken
    /\ pc' = [pc EXCEPT ![t] = IF clientConfig.tab = NilPtr THEN "L68" ELSE "L88"]
    /\ UNCHANGED <<fields, clientConfig, loadingLock, mergedClientConfig, err, loads,
                   local, loadCount, loadOK, loadFailed>>

\* Lock that does not wait for the holder to release.
LockWithoutExclusion(t) ==
    /\ pc[t] = "L68"
    /\ Taken
    /\ loadingLock' = loadingLock \cup {t}
    /\ pc' = [pc EXCEPT ![t] = "L71"]
    /\ UNCHANGED <<fields, clientConfig, mergedClientConfig, err, loads,
                   local, loadCount, loadOK, loadFailed>>

\* line 68: config.loadingLock.Lock()
Lock(t) ==
    /\ pc[t] = "L68"
    /\ Taken
    /\ loadingLock = {}
    /\ loadingLock' = {t}
    /\ pc' = [pc EXCEPT ![t] = "L71"]
    /\ UNCHANGED <<fields, clientConfig, mergedClientConfig, err, loads,
                   local, loadCount, loadOK, loadFailed>>

\* createClientConfig without the second check of line 71.
RecheckSkipped(t) ==
    /\ pc[t] = "L71"
    /\ Taken
    /\ pc' = [pc EXCEPT ![t] = "L72"]
    /\ UNCHANGED <<fields, clientConfig, loadingLock, mergedClientConfig, err, loads,
                   local, loadCount, loadOK, loadFailed>>

\* line 71: if config.clientConfig == nil   (holding loadingLock)
Recheck(t) ==
    /\ pc[t] = "L71"
    /\ Taken
    /\ pc' = [pc EXCEPT ![t] = IF clientConfig.tab = NilPtr THEN "L72" ELSE "L88"]
    /\ UNCHANGED <<fields, clientConfig, loadingLock, mergedClientConfig, err, loads,
                   local, loadCount, loadOK, loadFailed>>

\* Load entered after giving up loadingLock.
LoadCallUnlocked(t) ==
    /\ pc[t] = "L72"
    /\ Taken
    /\ pc' = [pc EXCEPT ![t] = "Load"]
    /\ loadingLock' = loadingLock \ {t}
    /\ loadCount' = loadCount + 1
    /\ loads' = [loads EXCEPT ![t] = loads[t] + 1]
    /\ UNCHANGED <<fields, clientConfig, mergedClientConfig, err,
                   local, loadOK, loadFailed>>

\* line 72: config.loader.Load() is entered
LoadCall(t) ==
    /\ pc[t] = "L72"
    /\ Taken
    /\ pc' = [pc EXCEPT ![t] = "Load"]
    /\ loadCount' = loadCount + 1
    /\ loads' = [loads EXCEPT ![t] = loads[t] + 1]
    /\ UNCHANGED <<fields, clientConfig, loadingLock, mergedClientConfig, err,
                   local, loadOK, loadFailed>>

\* A failed Load that leaves a handle without configuration in the cache.
LoadErrorCached(t, e) ==
    /\ pc[t] = "Load"
    /\ Taken
    /\ loadFailed' = loadFailed + 1
    /\ clientConfig' = [tab |-> [type |-> "*clientcmd.DirectClientConfig"], data |-> NilPtr]
    /\ mergedClientConfig' = [mergedClientConfig EXCEPT ![t] = NilHandle]
    /\ err' = [err EXCEPT ![t] = e]
    /\ pc' = [pc EXCEPT ![t] = "L69"]
    /\ UNCHANGED <<fields, loadingLock, loads, local, loadCount, loadOK>>

\* A failed Load that is tried again inside the same call.
LoadErrorRetried(t, e) ==
    /\ pc[t] = "Load"
    /\ Taken
    /\ loadFailed' = loadFailed + 1
    /\ pc' = [pc EXCEPT ![t] = "L72"]
    /\ UNCHANGED <<fields, clientConfig, loadingLock, mergedClientConfig, err, loads,
                   local, loadCount, loadOK>>

\* A failed Load that returns without the deferred Unlock.
LoadErrorLockKept(t, e) ==
    /\ pc[t] = "Load"
    /\ Taken
    /\ loadFailed' = loadFailed + 1
    /\ mergedClientConfig' = [mergedClientConfig EXCEPT ![t] = NilHandle]
    /\ err' = [err EXCEPT ![t] = e]
    /\ pc' = [pc EXCEPT ![t] = "ret"]
    /\ UNCHANGED <<fields, clientConfig, loadingLock, loads, local, loadCount, loadOK>>

\* lines 72-74: Load returns an error; return nil, err (the deferred Unlock follows)
LoadError(t, e) ==
    /\ pc[t] = "Load"
    /\ Taken
    /\ loadFailed' = loadFailed + 1
    /\ mergedClientConfig' = [mergedClientConfig EXCEPT ![t] = NilHandle]
    /\ err' = [err EXCEPT ![t] = e]
    /\ pc' = [pc EXCEPT ![t] = "L69"]
    /\ UNCHANGED <<fields, clientConfig, loadingLock, loads, local, loadCount, loadOK>>

\* lines 77-82: the handle built from the loaded configuration; every
\* successful Load yields a new object.
NewClientConfig(n) ==
    [tab |-> DirectClientConfigTab,
     data |-> [id |-> n, interactive |-> fallbackReader # NilPtr]]

\* lines 72-82: Load returns a configuration and mergedClientConfig is built
LoadReturn(t) ==
    /\ pc[t] = "Load"
    /\ Taken
    /\ loadOK' = loadOK + 1
    /\ mergedClientConfig' = [mergedClientConfig EXCEPT ![t] = NewClientConfig(loadOK + 1)]
    /\ pc' = [pc EXCEPT ![t] = "L84"]
    /\ UNCHANGED <<fields, clientConfig, loadingLock, err, loads, local, loadCount, loadFailed>>

\* line 84: config.clientConfig = mergedClientConfig, first word stored
StoreFirst(t, w) ==
    /\ pc[t] = "L84"
    /\ Taken
    /\ clientConfig' = [clientConfig EXCEPT ![w] = mergedClientConfig[t][w]]
    /\ pc' = [pc EXCEPT ![t] = IF w = "tab" THEN "L84data" ELSE "L84tab"]
    /\ UNCHANGED <<fields, loadingLock, mergedClientConfig, err, loads,
                   local, loadCount, loadOK, loadFailed>>

\* line 84: second word stored
StoreSecond(t) ==
    /\ pc[t] \in {"L84data", "L84tab"}
    /\ Taken
    /\ LET w == IF pc[t] = "L84data" THEN "data" ELSE "tab"
       IN clientConfig' = [clientConfig EXCEPT ![w] = mergedClientConfig[t][w]]
    /\ pc' = [pc EXCEPT ![t] = "L88"]
    /\ UNCHANGED <<fields, loadingLock, mergedClientConfig, err, loads,
                   local, loadCount, loadOK, loadFailed>>

\* line 88: return config.clientConfig, nil   (reads the field again)
ReadCache(t) ==
    /\ pc[t] = "L88"
    /\ Taken
    /\ mergedClientConfig' = [mergedClientConfig EXCEPT ![t] = clientConfig]
    /\ err' = [err EXCEPT ![t] = NoError]
    /\ pc' = [pc EXCEPT ![t] = IF t \in loadingLock THEN "L69" ELSE "ret"]
    /\ UNCHANGED <<fields, clientConfig, loadingLock, loads, local, loadCount, loadOK, loadFailed>>

\* line 69: defer config.loadingLock.Unlock(), run when the function returns
Unlock(t) ==
    /\ pc[t] = "L69"
    /\ Taken
    /\ loadingLock' = loadingLock \ {t}
    /\ pc' = [pc EXCEPT ![t] = "ret"]
    /\ UNCHANGED <<fields, clientConfig, mergedClientConfig, err, loads,
                   local, loadCount, loadOK, loadFailed>>

----------------------------------------------------------------------------
\* What the collaborators may answer.

\* mergedClientConfig.ClientConfig()
ClientConfigResults == [cfg : {NilPtr, MergedRestConfig}, err : MergedErrors]
\* config.icc.ClientConfig()
InClusterClientConfigResults ==
    {[cfg |-> InClusterRestConfig, err |-> NoError], [cfg |-> NilPtr, err |-> ErrNotInCluster]}
\* mergedKubeConfig.Namespace()
NamespaceResults == [ns : {"", NamespaceDefault, "tiller"}, overridden : BOOLEAN, err : MergedErrors]
\* config.icc.Namespace()
InClusterNamespaceResults ==
    {[ns |-> "kube-system", overridden |-> FALSE, err |-> NoError],
     [ns |-> "", overridden |-> FALSE, err |-> ErrNotInCluster]}
\* clientcmdapi.Config: the current context's name and the Contexts map
NoContexts == [c \in {} |-> NilPtr]
EmptyRawConfig == [CurrentContext |-> "", Contexts |-> NoContexts]
RawConfigs ==
    {[CurrentContext |-> "dev", Contexts |-> NoContexts],
     [CurrentContext |-> "dev", Contexts |-> [c \in {"dev"} |-> [Namespace |-> ""]]],
     [CurrentContext |-> "dev", Contexts |-> [c \in {"dev"} |-> [Namespace |-> NamespaceDefault]]]}
\* mergedClientConfig.RawConfig()
RawConfigResults ==
    [raw : RawConfigs, err : {NoError}] \cup {[raw |-> EmptyRawConfig, err |-> ErrInvalidConfig]}

\* The answers a call of each method may meet, one per collaborator call.
RawConfigAnswers == [RawConfig : RawConfigResults]
ClientConfigAnswers ==
    [ClientConfig : ClientConfigResults, IsDefaultConfig : BOOLEAN,
     Possible : BOOLEAN, InClusterClientConfig : InClusterClientConfigResults]
NamespaceAnswers ==
    [Namespace : NamespaceResults, Possible : BOOLEAN,
     RawConfig : RawConfigResults, InClusterNamespace : InClusterNamespaceResults]

Return(v, e) == [kind |-> "return", val |-> v, err |-> e]
\* A nil dereference: the call does not return.
Panic(line) == [kind |-> "panic", val |-> line, err |-> NoError]
Outcome(o, asked) == [out |-> o, asked |-> asked]

\* A method called through an interface value whose data word is nil runs
\* with a nil *DirectClientConfig receiver and dereferences it.
Torn(h) == h.data = NilPtr

----------------------------------------------------------------------------
\* RawConfig, lines 91-98.  h, e: what createClientConfig returned.
RawConfigBody(h, e, ans) ==
    IF e # NoError THEN Outcome(Return(EmptyRawConfig, e), {})
    ELSE IF Torn(h) THEN Outcome(Panic("L97"), {})
    ELSE Outcome(Return(ans.RawConfig.raw, ans.RawConfig.err), {"RawConfig"})

\* ClientConfig that treats every error as empty config.
HardFailureIgnored(e) == FALSE

\* ClientConfig that returns at once on every error, empty config included.
HardFailureOnAnyError(e) == e # NoError

\* lines 111-115: any error except empty config is returned at once
HardFailure(e) == e # NoError /\ ~IsEmptyConfig(e)

\* ClientConfig with the test of IsDefaultConfig inverted.
ExplicitConfigInverted(mergedConfig, e, isDefault) ==
    e = NoError /\ mergedConfig # NilPtr /\ isDefault

\* lines 116-121: a configuration that differs from the defaults is returned
ExplicitConfig(mergedConfig, e, isDefault) ==
    e = NoError /\ mergedConfig # NilPtr /\ ~isDefault

\* ClientConfig that drops the error of the in-cluster configuration.
InClusterClientConfigNoError(r) == Return(r.cfg, NoError)

\* line 127: return config.icc.ClientConfig()
InClusterClientConfig(r) == Return(r.cfg, r.err)

\* lines 129-133: the identity is written into mergedConfig, which is returned
\* with the error of line 109
Impersonated(mergedConfig, e) ==
    Return([mergedConfig EXCEPT !.Impersonate = [UserName |-> user, Groups |-> groups]], e)

\* ClientConfig, lines 101-134.
ClientConfigBody(h, e, ans) ==
    IF e # NoError THEN Outcome(Return(NilPtr, e), {})
    ELSE IF Torn(h) THEN Outcome(Panic("L109"), {})
    ELSE
    LET mergedConfig == ans.ClientConfig.cfg
        err109 == ans.ClientConfig.err
        \* the switch reaches loader.IsDefaultConfig in its second case only
        asked == {"ClientConfig"} \cup
                 (IF err109 = NoError /\ mergedConfig # NilPtr THEN {"IsDefaultConfig"} ELSE {})
    IN  IF HardFailure(err109)
          THEN Outcome(Return(NilPtr, err109), asked)
        ELSE IF ExplicitConfig(mergedConfig, err109, ans.IsDefaultConfig)
          THEN Outcome(Return(mergedConfig, NoError), asked)
        ELSE IF icc = NilPtr
          THEN Outcome(Panic("L125"), asked)
        ELSE IF ans.Possible
          THEN Outcome(InClusterClientConfig(ans.InClusterClientConfig),
                       asked \cup {"Possible", "InClusterClientConfig"})
        ELSE IF mergedConfig = NilPtr
          THEN Outcome(Panic("L129"), asked \cup {"Possible"})
        ELSE Outcome(Impersonated(mergedConfig, err109), asked \cup {"Possible"})

\* raw.Contexts[raw.CurrentContext]: nil when the map has no such key
CurrentContextOf(raw) ==
    IF raw.CurrentContext \in DOMAIN raw.Contexts
      THEN raw.Contexts[raw.CurrentContext] ELSE NilPtr

\* Namespace that does not return at once on an explicit namespace.
NoFallbackOnErrorOnly(e, overridden) == e # NoError /\ ~IsEmptyConfig(e)

\* line 146: return immediately on an error that is not empty config, on an
\* explicit namespace, or when in-cluster config is not possible.  Go's ||
\* calls icc.Possible() only when the first two operands are false.
NoFallback(e, overridden) == (e # NoError /\ ~IsEmptyConfig(e)) \/ overridden

\* Namespace that lets no namespace win for being non-default.
NonDefaultNamespaceNever(ns) == FALSE

\* lines 151-153: a namespace was retrieved and it is not the default one
NonDefaultNamespace(ns) == Len(ns) > 0 /\ ns # NamespaceDefault

\* Namespace that never takes the default namespace for explicit.
ExplicitNamespaceNever(r) == FALSE

\* Namespace that takes every default namespace for explicit.
ExplicitNamespaceAlways(r) == TRUE

\* lines 158-162: the raw config was read and its current context names a namespace
ExplicitNamespace(r) ==
    /\ r.err = NoError
    /\ CurrentContextOf(r.raw) # NilPtr
    /\ Len(CurrentContextOf(r.raw).Namespace) > 0

\* line 168: return config.icc.Namespace()
InClusterNamespace(r) == Return([ns |-> r.ns, overridden |-> r.overridden], r.err)

\* Namespace, lines 137-169.
NamespaceBody(h, e, ans) ==
    IF e # NoError THEN Outcome(Return([ns |-> "", overridden |-> FALSE], e), {})
    ELSE IF Torn(h) THEN Outcome(Panic("L143"), {})
    ELSE
    LET ns == ans.Namespace.ns
        overridden == ans.Namespace.overridden
        err143 == ans.Namespace.err
    IN  IF NoFallback(err143, overridden)
          THEN Outcome(Return([ns |-> ns, overridden |-> overridden], err143), {"Namespace"})
        ELSE IF icc = NilPtr
          THEN Outcome(Panic("L146"), {"Namespace"})
        ELSE IF ~ans.Possible
          THEN Outcome(Return([ns |-> ns, overridden |-> overridden], err143),
                       {"Namespace", "Possible"})
        ELSE IF NonDefaultNamespace(ns)
          THEN Outcome(Return([ns |-> ns, overridden |-> FALSE], NoError),
                       {"Namespace", "Possible"})
        ELSE IF Len(ns) > 0 /\ ExplicitNamespace(ans.RawConfig)
          THEN Outcome(Return([ns |-> ns, overridden |-> FALSE], NoError),
                       {"Namespace", "Possible", "RawConfig"})
        ELSE Outcome(InClusterNamespace(ans.InClusterNamespace),
                     {"Namespace", "Possible", "InClusterNamespace"}
                       \cup (IF Len(ns) > 0 THEN {"RawConfig"} ELSE {}))

\* A collaborator that is not called gives no answer: of the answers that
\* differ only where nothing was asked, one stands for all.
NotAsked ==
    [ClientConfig |-> [cfg |-> NilPtr, err |-> NoError], IsDefaultConfig |-> FALSE,
     Possible |-> FALSE, InClusterClientConfig |-> [cfg |-> NilPtr, err |-> ErrNotInCluster],
     Namespace |-> [ns |-> "", overridden |-> FALSE, err |-> NoError],
     RawConfig |-> [raw |-> EmptyRawConfig, err |-> ErrInvalidConfig],
     InClusterNamespace |-> [ns |-> "", overridden |-> FALSE, err |-> ErrNotInCluster]]
Unasked(ans, asked) == \A n \in DOMAIN ans \ asked : ans[n] = NotAsked[n]

\* The method returns r.out, having made the collaborator calls r.asked.
Finish(t, r, ans) ==
    /\ Unasked(ans, r.asked)
    /\ out' = [out EXCEPT ![t] = r.out]
    /\ env' = [env EXCEPT ![t] = [n \in r.asked |-> ans[n]]]
    /\ pc' = [pc EXCEPT ![t] = "returned"]
    /\ UNCHANGED <<fields, clientConfig, loadingLock, op, mergedClientConfig, err, loads,
                   resolvedAtCall, calls, loadCount, loadOK, loadFailed>>

\* lines 93-97
RawConfigReturn(t) ==
    /\ pc[t] = "ret" /\ op[t] = "RawConfig"
    /\ Taken
    /\ \E ans \in RawConfigAnswers :
         Finish(t, RawConfigBody(mergedClientConfig[t], err[t], ans), ans)

\* lines 103-133
ClientConfigReturn(t) ==
    /\ pc[t] = "ret" /\ op[t] = "ClientConfig"
    /\ Taken
    /\ \E ans \in ClientConfigAnswers :
         Finish(t, ClientConfigBody(mergedClientConfig[t], err[t], ans), ans)

\* lines 139-168
NamespaceReturn(t) ==
    /\ pc[t] = "ret" /\ op[t] = "Namespace"
    /\ Taken
    /\ \E ans \in NamespaceAnswers :
         Finish(t, NamespaceBody(mergedClientConfig[t], err[t], ans), ans)

----------------------------------------------------------------------------
\* The caller takes the returned values and the call's locals are gone.  out
\* and env record one return, for the properties below; nothing in the
\* program reads them.
Retire(t) ==
    /\ pc[t] = "returned"
    /\ pc' = [pc EXCEPT ![t] = "done"]
    /\ out' = [out EXCEPT ![t] = NoOut]
    /\ env' = [env EXCEPT ![t] = NoEnv]
    /\ op' = [op EXCEPT ![t] = "none"]
    /\ mergedClientConfig' = [mergedClientConfig EXCEPT ![t] = NilHandle]
    /\ err' = [err EXCEPT ![t] = NoError]
    /\ loads' = [loads EXCEPT ![t] = 0]
    /\ resolvedAtCall' = [resolvedAtCall EXCEPT ![t] = FALSE]
    /\ UNCHANGED <<fields, clientConfig, loadingLock, calls, loadCount, loadOK, loadFailed>>

Next ==
    \E t \in Callers :
        \/ CallRawConfig(t)
        \/ CallClientConfig(t)
        \/ CallNamespace(t)
        \/ ConfigAccess(t)
        \/ CheckCache(t)
        \/ Lock(t)
        \/ Recheck(t)
        \/ LoadCall(t)
        \/ \E e \in LoadErrors : LoadError(t, e)
        \/ LoadReturn(t)
        \/ \E w \in {"tab", "data"} : StoreFirst(t, w)
        \/ StoreSecond(t)
        \/ ReadCache(t)
        \/ Unlock(t)
        \/ RawConfigReturn(t)
        \/ ClientConfigReturn(t)
        \/ NamespaceReturn(t)
        \/ Retire(t)

Spec == Init /\ [][Next]_vars

\* The statements a goroutine inside a call executes.
Run(t) ==
    \/ CheckCache(t)
    \/ Lock(t)
    \/ Recheck(t)
    \/ LoadCall(t)
    \/ \E e \in LoadErrors : LoadError(t, e)
    \/ LoadReturn(t)
    \/ \E w \in {"tab", "data"} : StoreFirst(t, w)
    \/ StoreSecond(t)
    \/ ReadCache(t)
    \/ Unlock(t)
    \/ RawConfigReturn(t)
    \/ ClientConfigReturn(t)
    \/ NamespaceReturn(t)
    \/ Retire(t)

\* A goroutine inside a call keeps running: a statement that stays executable
\* is eventually executed, Load eventually returns, and a goroutine waiting in
\* Lock gets loadingLock once it stays free.  sync.Mutex guarantees more (a
\* waiter is not starved by others that lock again and again); the calls of
\* one run being finitely many, the weaker condition is enough here.
Fairness == \A t \in Callers : WF_vars(Run(t))

LiveSpec == Init /\ [][Next]_vars /\ Fairness

----------------------------------------------------------------------------
\* Properties of createClientConfig.

\* createClientConfig has returned to the method that called it.
Created(t) == pc[t] = "ret"

\* C1, as stated: Load is invoked exactly once however many callers resolve
\* concurrently, and never more than once in the life of the instance.
C1_LoadExactlyOnce ==
    /\ loadCount <= 1
    /\ \A t \in Callers : Created(t) => loadCount = 1

\* C1, amended: at most one Load ever returns a configuration, and apart from
\* the Loads that failed at most one Load is ever invoked; every call that
\* comes back from createClientConfig was preceded by a Load, and once the
\* cache is stored no Load is in progress.  So while no Load fails, Load is
\* invoked exactly once however many callers resolve concurrently.
C1_OneLoadBesidesFailed ==
    /\ loadOK <= 1
    /\ loadCount <= loadFailed + 1
    /\ \A t \in Callers : Created(t) => loadCount >= 1
    /\ \A t \in Callers : Created(t) /\ loadFailed = 0 => loadCount = 1
    /\ Resolved => loadOK = 1 /\ loadCount = loadFailed + 1

\* Two callers resolved concurrently with a single Load.
C1_Witness ==
    \E t, u \in Callers :
        /\ t # u
        /\ Created(t) /\ Created(u)
        /\ err[t] = NoError /\ err[u] = NoError
        /\ loadCount = 1

\* C2: each word of clientConfig, once stored, keeps its value, so a stored
\* handle is never replaced or cleared and the instance never goes back to
\* unresolved; once it is stored Load is not invoked again; and every call
\* that began after it was stored gets exactly the stored handle, with no
\* error and without invoking Load.
C2_WriteOnceCache ==
    /\ [][/\ clientConfig.tab # NilPtr => clientConfig'.tab = clientConfig.tab
          /\ clientConfig.data # NilPtr => clientConfig'.data = clientConfig.data
          /\ Resolved => loadCount' = loadCount]_vars
    /\ [](\A t \in Callers :
            Created(t) /\ resolvedAtCall[t] =>
                /\ mergedClientConfig[t] = clientConfig
                /\ err[t] = NoError
                /\ loads[t] = 0)

\* A call begun after the handle was stored has returned it.
C2_Witness ==
    \E t \in Callers :
        /\ Created(t) /\ resolvedAtCall[t]
        /\ Resolved /\ mergedClientConfig[t] = clientConfig

\* C3: a failed Load stores nothing (while no Load has succeeded the cache is
\* absent); no call returns from createClientConfig on the strength of an
\* earlier failure: it returns an error only from a Load it invoked itself,
\* and if it invoked none it returns the handle of a successful Load; and a
\* call whose own Load succeeded leaves the instance resolved and returns the
\* stored handle without error.
C3_NoPoisonOnFailure ==
    /\ loadOK = 0 => clientConfig = NilHandle
    /\ \A t \in Callers :
         Created(t) =>
            /\ err[t] # NoError => loads[t] = 1 /\ mergedClientConfig[t] = NilHandle
            /\ loads[t] = 0 => err[t] = NoError /\ loadOK = 1
            /\ loads[t] = 1 /\ err[t] = NoError =>
                  Resolved /\ mergedClientConfig[t] = clientConfig

\* After a failed Load, a later call invoked Load again and resolved.
C3_Witness ==
    /\ loadFailed >= 1
    /\ \E t \in Callers :
         /\ Created(t) /\ loads[t] = 1 /\ err[t] = NoError
         /\ Resolved /\ mergedClientConfig[t] = clientConfig

\* C4, as stated: callers that resolve concurrently on an instance that is
\* not yet resolved all get the same outcome: the same error, or the same
\* handle.  Two calls that are both between entry and return are concurrent;
\* handles are compared where both were read whole.
C4_SameOutcome ==
    \A t, u \in Callers :
        Created(t) /\ Created(u) /\ ~resolvedAtCall[t] /\ ~resolvedAtCall[u] =>
            /\ err[t] = err[u]
            /\ ~Torn(mergedClientConfig[t]) /\ ~Torn(mergedClientConfig[u]) =>
                  mergedClientConfig[t] = mergedClientConfig[u]

----------------------------------------------------------------------------
\* Properties of ClientConfig and Namespace, stated of the values a call
\* returns (out) and the collaborator calls it made (env).

\* Caller t has just returned from method o.
Returned(t, o) == pc[t] = "returned" /\ op[t] = o
\* The call made collaborator call n.
Asked(t, n) == n \in DOMAIN env[t]

\* mergedClientConfig.ClientConfig() gave a configuration, without error,
\* that loader.IsDefaultConfig reported as not the default.
MergedIsExplicit(t) ==
    /\ Asked(t, "ClientConfig")
    /\ env[t].ClientConfig.err = NoError
    /\ env[t].ClientConfig.cfg # NilPtr
    /\ Asked(t, "IsDefaultConfig")
    /\ ~env[t].IsDefaultConfig

\* mergedClientConfig.ClientConfig() gave nothing, or a configuration the
\* loader reported as default, or an empty-config error.
MergedIsEmptyOrDefault(t) ==
    /\ Asked(t, "ClientConfig")
    /\ \/ env[t].ClientConfig.err = ErrEmptyConfig
       \/ env[t].ClientConfig.err = NoError /\ env[t].ClientConfig.cfg = NilPtr
       \/ /\ env[t].ClientConfig.err = NoError
          /\ Asked(t, "IsDefaultConfig")
          /\ env[t].IsDefaultConfig

\* C5: when the merged configuration is retrieved without error, is not nil
\* and is reported as not default, ClientConfig returns exactly it with a nil
\* error and calls neither icc.Possible() nor icc.ClientConfig().
C5_ExplicitOverDefault ==
    \A t \in Callers :
        Returned(t, "ClientConfig") /\ MergedIsExplicit(t) =>
            /\ out[t] = Return(env[t].ClientConfig.cfg, NoError)
            /\ ~Asked(t, "Possible")
            /\ ~Asked(t, "InClusterClientConfig")

\* An explicit configuration returned by an instance that has a detector.
C5_Witness ==
    \E t \in Callers :
        /\ Returned(t, "ClientConfig") /\ MergedIsExplicit(t)
        /\ icc # NilPtr
        /\ out[t] = Return(MergedRestConfig, NoError)

\* C6: when the merged retrieval yields nothing, a default configuration or
\* an empty-config error, the detector (if the instance has one) is asked,
\* and if icc.Possible() reports true ClientConfig returns exactly the
\* configuration and error of icc.ClientConfig().
C6_InClusterFallback ==
    \A t \in Callers :
        Returned(t, "ClientConfig") /\ MergedIsEmptyOrDefault(t) /\ icc # NilPtr =>
            /\ Asked(t, "Possible")
            /\ env[t].Possible =>
                 /\ Asked(t, "InClusterClientConfig")
                 /\ out[t] = Return(env[t].InClusterClientConfig.cfg,
                                    env[t].InClusterClientConfig.err)

\* A default merged configuration gave way to the in-cluster one.
C6_Witness ==
    \E t \in Callers :
        /\ Returned(t, "ClientConfig") /\ MergedIsEmptyOrDefault(t)
        /\ Asked(t, "Possible") /\ env[t].Possible
        /\ env[t].ClientConfig.cfg = MergedRestConfig
        /\ out[t] = Return(InClusterRestConfig, NoError)

\* C7, as stated: the explicit configuration and the in-cluster configuration
\* are returned as the collaborator gave them, and on the final branch (merged
\* configuration default or empty, in-cluster not possible) ClientConfig
\* returns a configuration whose impersonation is the stored identity.
C7_ImpersonationScoping ==
    \A t \in Callers :
        Returned(t, "ClientConfig") =>
            /\ MergedIsExplicit(t) =>
                 out[t].kind = "return" /\ out[t].val = env[t].ClientConfig.cfg
            /\ Asked(t, "Possible") /\ env[t].Possible =>
                 out[t].kind = "return" /\ out[t].val = env[t].InClusterClientConfig.cfg
            /\ MergedIsEmptyOrDefault(t) /\ Asked(t, "Possible") /\ ~env[t].Possible =>
                 /\ out[t].kind = "return"
                 /\ out[t].val # NilPtr
                 /\ out[t].val.Impersonate = [UserName |-> user, Groups |-> groups]

\* C8: when the merged retrieval fails with an error that is not empty
\* config, ClientConfig returns nil and exactly that error, having called
\* nothing else: not the loader's IsDefaultConfig, not the detector.
C8_HardFailurePropagates ==
    \A t \in Callers :
        /\ Returned(t, "ClientConfig") /\ Asked(t, "ClientConfig")
        /\ env[t].ClientConfig.err \notin {NoError, ErrEmptyConfig}
        => /\ out[t] = Return(NilPtr, env[t].ClientConfig.err)
           /\ DOMAIN env[t] = {"ClientConfig"}

\* A hard failure of the merged retrieval came back from ClientConfig.
C8_Witness ==
    \E t \in Callers :
        /\ Returned(t, "ClientConfig") /\ Asked(t, "ClientConfig")
        /\ icc # NilPtr
        /\ out[t] = Return(NilPtr, ErrInvalidConfig)

\* mergedKubeConfig.Namespace() gave namespace n, not overridden, with no
\* error other than empty config, and icc.Possible() reported true.
FallbackConsidered(t, n) ==
    /\ Asked(t, "Namespace")
    /\ env[t].Namespace.ns = n
    /\ ~env[t].Namespace.overridden
    /\ env[t].Namespace.err \in {NoError, ErrEmptyConfig}
    /\ Asked(t, "Possible")
    /\ env[t].Possible

\* The raw configuration was read and its current context sets namespace n.
ContextNamespaceIs(t, n) ==
    /\ Asked(t, "RawConfig")
    /\ env[t].RawConfig.err = NoError
    /\ env[t].RawConfig.raw.CurrentContext \in DOMAIN env[t].RawConfig.raw.Contexts
    /\ env[t].RawConfig.raw.Contexts[env[t].RawConfig.raw.CurrentContext].Namespace = n

\* The raw configuration could not be read, or has no current context entry.
NoContext(t) ==
    /\ Asked(t, "RawConfig")
    /\ \/ env[t].RawConfig.err # NoError
       \/ env[t].RawConfig.raw.CurrentContext \notin DOMAIN env[t].RawConfig.raw.Contexts

\* C9: with in-cluster possible and the namespace not overridden, a default
\* namespace makes Namespace read the raw configuration, and when its current
\* context sets the default namespace explicitly Namespace returns
\* (default, false, nil) without calling icc.Namespace().
C9_ExplicitDefaultNamespace ==
    \A t \in Callers :
        Returned(t, "Namespace") /\ FallbackConsidered(t, NamespaceDefault) =>
            /\ Asked(t, "RawConfig")
            /\ ContextNamespaceIs(t, NamespaceDefault) =>
                 /\ out[t] = Return([ns |-> NamespaceDefault, overridden |-> FALSE], NoError)
                 /\ ~Asked(t, "InClusterNamespace")

\* An explicit default namespace was returned although in-cluster is possible.
C9_Witness ==
    \E t \in Callers :
        /\ Returned(t, "Namespace") /\ FallbackConsidered(t, NamespaceDefault)
        /\ ContextNamespaceIs(t, NamespaceDefault)
        /\ out[t] = Return([ns |-> NamespaceDefault, overridden |-> FALSE], NoError)

\* C10: with in-cluster possible and the namespace not overridden, when the
\* retrieved namespace is empty, or is the default while the raw
\* configuration cannot be read or its current context sets no namespace,
\* Namespace returns exactly the result of icc.Namespace().
C10_ImplicitDefaultNamespace ==
    \A t \in Callers :
        /\ Returned(t, "Namespace")
        /\ \/ FallbackConsidered(t, "")
           \/ /\ FallbackConsidered(t, NamespaceDefault)
              /\ NoContext(t) \/ ContextNamespaceIs(t, "")
        => /\ Asked(t, "InClusterNamespace")
           /\ out[t] = Return([ns |-> env[t].InClusterNamespace.ns,
                               overridden |-> env[t].InClusterNamespace.overridden],
                              env[t].InClusterNamespace.err)

\* An implicit default namespace gave way to the in-cluster namespace.
C10_Witness ==
    \E t \in Callers :
        /\ Returned(t, "Namespace") /\ FallbackConsidered(t, NamespaceDefault)
        /\ ContextNamespaceIs(t, "")
        /\ out[t] = Return([ns |-> "kube-system", overridden |-> FALSE], NoError)

\* C11: when mergedKubeConfig.Namespace() fails with an error that is not
\* empty config, or reports the namespace as overridden, or icc.Possible()
\* reports false, Namespace returns the namespace, the flag and the error
\* exactly as retrieved and does not call icc.Namespace().
C11_NamespaceNoFallback ==
    \A t \in Callers :
        /\ Returned(t, "Namespace") /\ Asked(t, "Namespace")
        /\ \/ env[t].Namespace.err \notin {NoError, ErrEmptyConfig}
           \/ env[t].Namespace.overridden
           \/ Asked(t, "Possible") /\ ~env[t].Possible
        => /\ out[t] = Return([ns |-> env[t].Namespace.ns,
                               overridden |-> env[t].Namespace.overridden],
                              env[t].Namespace.err)
           /\ ~Asked(t, "InClusterNamespace")
           /\ ~Asked(t, "RawConfig")

\* An overridden namespace came back as retrieved, the detector not asked.
C11_Witness ==
    \E t \in Callers :
        /\ Returned(t, "Namespace") /\ Asked(t, "Namespace")
        /\ env[t].Namespace.overridden
        /\ icc # NilPtr
        /\ ~Asked(t, "Possible")
        /\ out[t] = Return([ns |-> "tiller", overridden |-> TRUE], NoError)

\* The empty result each method returns beside an error of createClientConfig.
EmptyResult(o) ==
    IF o = "RawConfig" THEN EmptyRawConfig
    ELSE IF o = "ClientConfig" THEN NilPtr
    ELSE [ns |-> "", overridden |-> FALSE]

\* C12: no call invokes Load more than once, and a call of RawConfig,
\* ClientConfig or Namespace whose Load failed returns its empty result with
\* exactly the error of that Load, having invoked Load once and having called
\* neither the merged configuration nor the detector nor IsDefaultConfig.
C12_LoadFailurePropagates ==
    \A t \in Callers :
        /\ loads[t] <= 1
        /\ pc[t] = "returned" /\ op[t] # "ConfigAccess" /\ err[t] # NoError =>
             /\ err[t] \in LoadErrors
             /\ loads[t] = 1
             /\ out[t] = Return(EmptyResult(op[t]), err[t])
             /\ DOMAIN env[t] = {}

\* Namespace came back with the error of the Load its call invoked.
C12_Witness ==
    \E t \in Callers :
        /\ Returned(t, "Namespace")
        /\ loadFailed >= 1
        /\ out[t] = Return([ns |-> "", overridden |-> FALSE], "ErrLoadB")

----------------------------------------------------------------------------
\* Properties of ConfigAccess.

\* C13: the step that calls ConfigAccess is also the step that returns: it
\* yields the loader itself and leaves clientConfig, loadingLock and the
\* number of Load invocations as they were, whether the instance is resolved
\* or not; so a call of ConfigAccess is never inside createClientConfig, never
\* holds loadingLock, and has invoked no Load and no collaborator.
C13_ConfigAccessPure ==
    /\ [][\A t \in Callers :
            op'[t] = "ConfigAccess" /\ op[t] # "ConfigAccess" =>
                /\ pc'[t] = "returned"
                /\ out'[t] = Return("loader", NoError)
                /\ clientConfig' = clientConfig
                /\ loadingLock' = loadingLock
                /\ loadCount' = loadCount]_vars
    /\ [](\A t \in Callers :
            op[t] = "ConfigAccess" =>
                /\ pc[t] = "returned"
                /\ loads[t] = 0
                /\ t \notin loadingLock
                /\ DOMAIN env[t] = {})

\* ConfigAccess returned the loader on a resolved instance.
C13_Witness ==
    \E t \in Callers :
        /\ Returned(t, "ConfigAccess")
        /\ Resolved
        /\ out[t] = Return("loader", NoError)

----------------------------------------------------------------------------
\* Properties of the empty-config error.

\* C14, as stated: no call of ClientConfig or Namespace returns the
\* empty-config error of the merged retrieval.
C14_EmptyConfigNeverSurfaced ==
    \A t \in Callers :
        pc[t] = "returned" /\ op[t] \in {"ClientConfig", "Namespace"} =>
            out[t].err # ErrEmptyConfig

\* C14, amended: an empty-config error of the merged retrieval does not end
\* the call by itself: line 125 or 146 is reached, where the detector is asked
\* (on an instance without detector the call ends there in a nil
\* dereference), unless Namespace found the namespace overridden.  The error
\* is returned only when
\* no fallback takes place: by ClientConfig after icc.Possible() reported
\* false, by Namespace when the namespace is overridden or icc.Possible()
\* reported false.  When icc.Possible() reports true the call returns the
\* in-cluster result or, from Namespace, a nil error.
C14_EmptyConfigOnlyWithoutFallback ==
    \A t \in Callers :
        /\ Returned(t, "ClientConfig") /\ out[t].err = ErrEmptyConfig =>
              Asked(t, "ClientConfig") /\ env[t].ClientConfig.err = ErrEmptyConfig
        /\ Returned(t, "Namespace") /\ out[t].err = ErrEmptyConfig =>
              Asked(t, "Namespace") /\ env[t].Namespace.err = ErrEmptyConfig
        /\ /\ Returned(t, "ClientConfig") /\ Asked(t, "ClientConfig")
           /\ env[t].ClientConfig.err = ErrEmptyConfig
           => /\ icc # NilPtr => Asked(t, "Possible")
              /\ icc = NilPtr => out[t] = Panic("L125")
              /\ out[t].err = ErrEmptyConfig => Asked(t, "Possible") /\ ~env[t].Possible
              /\ Asked(t, "Possible") /\ env[t].Possible =>
                    out[t] = Return(env[t].InClusterClientConfig.cfg,
                                    env[t].InClusterClientConfig.err)
        /\ /\ Returned(t, "Namespace") /\ Asked(t, "Namespace")
           /\ env[t].Namespace.err = ErrEmptyConfig
           => /\ icc # NilPtr /\ ~env[t].Namespace.overridden => Asked(t, "Possible")
              /\ icc = NilPtr /\ ~env[t].Namespace.overridden => out[t] = Panic("L146")
              /\ out[t].err = ErrEmptyConfig =>
                    \/ env[t].Namespace.overridden
                    \/ Asked(t, "Possible") /\ ~env[t].Possible
              /\ Asked(t, "Possible") /\ env[t].Possible =>
                    out[t].kind = "return" /\ out[t].err # ErrEmptyConfig

\* With in-cluster not possible, Namespace returned the empty-config error.
C14_Witness ==
    \E t \in Callers :
        /\ Returned(t, "Namespace") /\ Asked(t, "Namespace")
        /\ Asked(t, "Possible") /\ ~env[t].Possible
        /\ out[t] = Return([ns |-> "", overridden |-> FALSE], ErrEmptyConfig)

----------------------------------------------------------------------------
\* Properties of the nil dereferences.

\* C15, as stated: icc.Possible(), icc.ClientConfig() and icc.Namespace() are
\* never called on a nil detector: no call of ClientConfig ends in the nil
\* dereference of line 125 and no call of Namespace in that of line 146.
C15_DetectorPresent ==
    \A t \in Callers :
        /\ Returned(t, "ClientConfig") => out[t] # Panic("L125")
        /\ Returned(t, "Namespace") => out[t] # Panic("L146")

\* C16, as stated: whenever ClientConfig reaches lines 129-130 (in-cluster
\* not possible) the merged configuration is not nil: no call of ClientConfig
\* ends in the nil dereference of line 129.
C16_MergedConfigPresent ==
    \A t \in Callers :
        Returned(t, "ClientConfig") /\ Asked(t, "Possible") /\ ~env[t].Possible =>
            /\ env[t].ClientConfig.cfg # NilPtr
            /\ out[t] # Panic("L129")

----------------------------------------------------------------------------
\* Properties of loadingLock.

\* The statements of createClientConfig between the re-check of line 71 and
\* the store of line 84.
Loading == {"L72", "Load", "L84"}
Storing == {"L84", "L84data", "L84tab"}

\* C17: at most one caller is inside Load at any time and at most one holds
\* loadingLock; a caller between the re-check and the store holds loadingLock
\* and the cache is still absent, also when earlier Loads failed; and
\* clientConfig changes only in a step of the store of line 84 taken by the
\* holder of loadingLock.
C17_LoadsSerialised ==
    /\ [](Cardinality({t \in Callers : pc[t] = "Load"}) <= 1)
    /\ [](Cardinality(loadingLock) <= 1)
    /\ [](\A t \in Callers :
            /\ pc[t] \in Loading => t \in loadingLock /\ clientConfig = NilHandle
            /\ pc[t] \in Storing => t \in loadingLock)
    /\ [][clientConfig' # clientConfig =>
            \E t \in loadingLock :
                /\ pc[t] \in Storing
                /\ pc'[t] \in {"L84data", "L84tab", "L88"}]_vars

\* Of two concurrent calls, one failed its Load and is on its way out while
\* the other, holding loadingLock, is storing the handle of its own Load.
C17_Witness ==
    \E t, u \in Callers :
        /\ t # u
        /\ pc[t] = "L84data" /\ loadingLock = {t}
        /\ pc[u] = "ret" /\ err[u] # NoError
        /\ loadFailed = 1 /\ loadCount = 2

\* C18: a caller holds loadingLock only between Lock and the deferred Unlock,
\* so it has released it when createClientConfig has returned, whichever path
\* it took; and under fair scheduling with Loads that terminate, every caller
\* waiting in Lock eventually holds loadingLock and every call of
\* createClientConfig eventually returns.
C18_GuardReleased ==
    /\ [](\A t \in Callers :
            /\ t \in loadingLock =>
                 pc[t] \in {"L71", "L72", "Load", "L84", "L84data", "L84tab", "L88", "L69"}
            /\ pc[t] \in {"L71", "L72", "Load", "L84", "L84data", "L84tab", "L69"} =>
                 t \in loadingLock)
    /\ [](\A t \in Callers : Created(t) => t \notin loadingLock)
    /\ \A t \in Callers : (pc[t] = "L68") ~> (t \in loadingLock)
    /\ \A t \in Callers : (pc[t] = "L67") ~> Created(t)

\* A caller holds loadingLock after the call that held it before failed its
\* Load and returned from createClientConfig.
C18_Witness ==
    \E t, u \in Callers :
        /\ t # u
        /\ pc[t] = "L71" /\ loadingLock = {t}
        /\ Created(u) /\ err[u] # NoError
        /\ loadFailed = 1

----------------------------------------------------------------------------
\* Properties of Namespace, continued.

\* C19: with in-cluster possible, the namespace not overridden and no error
\* other than empty config, a retrieved namespace that is neither empty nor
\* the default is returned as (namespace, false, nil), without reading the
\* raw configuration and without calling icc.Namespace().
C19_NonDefaultNamespaceWins ==
    \A t \in Callers :
        /\ Returned(t, "Namespace") /\ Asked(t, "Namespace")
        /\ env[t].Namespace.ns \notin {"", NamespaceDefault}
        /\ FallbackConsidered(t, env[t].Namespace.ns)
        => /\ out[t] = Return([ns |-> env[t].Namespace.ns, overridden |-> FALSE], NoError)
           /\ DOMAIN env[t] = {"Namespace", "Possible"}

\* A non-default namespace retrieved with an empty-config error was returned
\* with a nil error although in-cluster is possible.
C19_Witness ==
    \E t \in Callers :
        /\ Returned(t, "Namespace") /\ FallbackConsidered(t, "tiller")
        /\ env[t].Namespace.err = ErrEmptyConfig
        /\ out[t] = Return([ns |-> "tiller", overridden |-> FALSE], NoError)

====
